---- MODULE Spec2Model ----
(***************************************************************************)
(* x12-delimiters: the Delimiters value type (src/src/lib.rs) and its      *)
(* error type (src/src/errors.rs).                                         *)
(*                                                                         *)
(* The library is a set of pure functions over a three-byte value.  The    *)
(* model is a caller that builds a value with one of the three             *)
(* constructors (new, default, from_isa) and then queries it; the state    *)
(* holds the caller's inputs, the value it owns and the last return value. *)
(* A byte is a number in 0..255; a byte slice is a sequence, indexed from  *)
(* zero through Index.                                                     *)
(***************************************************************************)
EXTENDS Integers, Sequences, FiniteSets

VARIABLES
    isa_segment,  \* the slice given to the last from_isa call (<<>> before)
    args,         \* <<t, e, s>> given to Delimiters::new for d (<<>> before)
    args2,        \* <<t, e, s>> given to Delimiters::new for other
    d,            \* the Delimiters value the caller holds, or NoValue
    other,        \* a second Delimiters value (equality, round trip)
    origin,       \* the constructor that produced d
    call,         \* the operation called last
    ret           \* what the last call returned

vars == <<isa_segment, args, args2, d, other, origin, call, ret>>

----------------------------------------------------------------------------
(* Bounds of the model *)

\* bytes 0 .. NumLowBytes-1 are drawn as inputs, next to the default bytes
NumLowBytes == 2
\* headers of every length 0 .. ISA_MIN_LENGTH + MaxExtra are drawn
MaxExtra == 3

----------------------------------------------------------------------------
(* Constants of src/src/lib.rs *)

DEFAULT_SEGMENT_TERMINATOR == 126
DEFAULT_ELEMENT_SEPARATOR == 42
DEFAULT_SUB_ELEMENT_SEPARATOR == 58

ISA_MIN_LENGTH == 106
ISA_ELEMENT_SEPARATOR_INDEX == 3
ISA_SUB_ELEMENT_SEPARATOR_INDEX == 104
ISA_SEGMENT_TERMINATOR_INDEX == 105

\* u8
Byte == 0..255

NoValue == [none |-> TRUE]

\* the test module's sample slices, byte for byte
SAMPLE_ISA_SEGMENT_STANDARD ==
    <<73, 83, 65, 42, 48, 48, 42, 32, 32, 32, 32, 32, 32, 32, 32, 32, 32, 42,
      48, 48, 42, 32, 32, 32, 32, 32, 32, 32, 32, 32, 32, 42, 90, 90, 42, 83,
      69, 78, 68, 69, 82, 73, 68, 32, 32, 32, 32, 32, 32, 32, 42, 90, 90, 42,
      82, 69, 67, 69, 73, 86, 69, 82, 73, 68, 32, 32, 32, 32, 32, 42, 50, 53,
      48, 52, 48, 51, 42, 48, 56, 53, 54, 42, 85, 42, 48, 48, 53, 48, 49, 42,
      48, 48, 48, 48, 48, 48, 48, 48, 49, 42, 48, 42, 80, 42, 58, 126>>

SAMPLE_ISA_SEGMENT_ALT ==
    <<73, 83, 65, 94, 48, 48, 94, 32, 32, 32, 32, 32, 32, 32, 32, 32, 32, 94,
      48, 48, 94, 32, 32, 32, 32, 32, 32, 32, 32, 32, 32, 94, 90, 90, 94, 83,
      69, 78, 68, 69, 82, 73, 68, 32, 32, 32, 32, 32, 32, 32, 94, 90, 90, 94,
      82, 69, 67, 69, 73, 86, 69, 82, 73, 68, 32, 32, 32, 32, 32, 94, 50, 53,
      48, 52, 48, 51, 94, 48, 56, 53, 54, 94, 85, 94, 48, 48, 52, 48, 49, 94,
      48, 48, 48, 48, 48, 48, 48, 48, 50, 94, 49, 94, 84, 94, 62, 125>>

TOO_SHORT_ISA == <<73, 83, 65, 42, 48, 48, 42>>

----------------------------------------------------------------------------
(* src/src/errors.rs *)

\* enum DelimiterError: its variants
DelimiterError == {"InvalidIsaLength"}

fmt_WrongLength(e) ==
    CASE e = "InvalidIsaLength" ->
        "ISA segment must be at least 105 bytes long to extract delimiters"

\* impl fmt::Display for DelimiterError
fmt(e) ==
    CASE e = "InvalidIsaLength" ->
        "ISA segment must be at least 106 bytes long to extract delimiters"

----------------------------------------------------------------------------
(* src/src/lib.rs *)

\* Result<Delimiters, DelimiterError>
Ok(v) == [tag |-> "Ok", val |-> v]
Err(e) == [tag |-> "Err", err |-> e]

Index_OneBased(s, i) == s[i]

\* slice[i] of Rust, zero-indexed, on a sequence
Index(s, i) == s[i + 1]

New_Swapped(segment_terminator, element_separator, sub_element_separator) ==
    [segment_terminator |-> segment_terminator,
     element_separator |-> sub_element_separator,
     sub_element_separator |-> element_separator]

\* Delimiters::new
New(segment_terminator, element_separator, sub_element_separator) ==
    [segment_terminator |-> segment_terminator,
     element_separator |-> element_separator,
     sub_element_separator |-> sub_element_separator]

from_isa_Inclusive(isa) ==
    IF Len(isa) <= ISA_MIN_LENGTH
    THEN Err("InvalidIsaLength")
    ELSE Ok([element_separator |-> Index(isa, ISA_ELEMENT_SEPARATOR_INDEX),
             sub_element_separator |-> Index(isa, ISA_SUB_ELEMENT_SEPARATOR_INDEX),
             segment_terminator |-> Index(isa, ISA_SEGMENT_TERMINATOR_INDEX)])

from_isa_Swapped(isa) ==
    IF Len(isa) < ISA_MIN_LENGTH
    THEN Err("InvalidIsaLength")
    ELSE Ok([element_separator |-> Index(isa, ISA_ELEMENT_SEPARATOR_INDEX),
             sub_element_separator |-> Index(isa, ISA_SEGMENT_TERMINATOR_INDEX),
             segment_terminator |-> Index(isa, ISA_SUB_ELEMENT_SEPARATOR_INDEX)])

\* Delimiters::from_isa
from_isa(isa) ==
    IF Len(isa) < ISA_MIN_LENGTH
    THEN Err("InvalidIsaLength")
    ELSE Ok([element_separator |-> Index(isa, ISA_ELEMENT_SEPARATOR_INDEX),
             sub_element_separator |-> Index(isa, ISA_SUB_ELEMENT_SEPARATOR_INDEX),
             segment_terminator |-> Index(isa, ISA_SEGMENT_TERMINATOR_INDEX)])

\* the accessors
segment_terminator(self) == self.segment_terminator

element_separator(self) == self.element_separator

sub_element_separator_Copied(self) == self.element_separator

sub_element_separator(self) == self.sub_element_separator

are_valid_TwoChecks(self) ==
    /\ self.segment_terminator # self.element_separator
    /\ self.segment_terminator # self.sub_element_separator

are_valid_FirstTwo(self) ==
    /\ self.segment_terminator # self.sub_element_separator
    /\ self.element_separator # self.sub_element_separator

\* Delimiters::are_valid
are_valid(self) ==
    /\ self.segment_terminator # self.element_separator
    /\ self.segment_terminator # self.sub_element_separator
    /\ self.element_separator # self.sub_element_separator

Default_Swapped ==
    [segment_terminator |-> DEFAULT_SEGMENT_TERMINATOR,
     element_separator |-> DEFAULT_SUB_ELEMENT_SEPARATOR,
     sub_element_separator |-> DEFAULT_ELEMENT_SEPARATOR]

\* impl Default for Delimiters
Default ==
    [segment_terminator |-> DEFAULT_SEGMENT_TERMINATOR,
     element_separator |-> DEFAULT_ELEMENT_SEPARATOR,
     sub_element_separator |-> DEFAULT_SUB_ELEMENT_SEPARATOR]

Eq_TwoFields(x, y) ==
    /\ x.segment_terminator = y.segment_terminator
    /\ x.element_separator = y.element_separator

\* #[derive(PartialEq, Eq)] on Delimiters: field by field, in declaration order
Eq(x, y) ==
    /\ x.segment_terminator = y.segment_terminator
    /\ x.element_separator = y.element_separator
    /\ x.sub_element_separator = y.sub_element_separator

----------------------------------------------------------------------------
(* The inputs the caller draws *)

\* the bytes drawn as delimiters and as filler
Bytes ==
    {b \in Byte : b < NumLowBytes}
        \cup {DEFAULT_SEGMENT_TERMINATOR, DEFAULT_ELEMENT_SEPARATOR,
              DEFAULT_SUB_ELEMENT_SEPARATOR}

\* "ISA"
IsaTag == <<73, 83, 65>>

\* a slice of len bytes: e, s, t at the three delimiter offsets (where the
\* slice reaches them), "ISA" or filler in front, filler everywhere else
HeaderOf(len, tagged, fill, e, s, t) ==
    [i \in 1..len |->
        LET o == i - 1 IN
        IF o = ISA_ELEMENT_SEPARATOR_INDEX THEN e
        ELSE IF o = ISA_SUB_ELEMENT_SEPARATOR_INDEX THEN s
        ELSE IF o = ISA_SEGMENT_TERMINATOR_INDEX THEN t
        ELSE IF tagged /\ i <= Len(IsaTag) THEN IsaTag[i]
        ELSE fill]

Lengths == 0..(ISA_MIN_LENGTH + MaxExtra)

Headers ==
    {HeaderOf(len, tagged, fill, e, s, t) :
        len \in Lengths, tagged \in BOOLEAN, fill \in Bytes,
        e \in Bytes, s \in Bytes, t \in Bytes}
    \cup {SAMPLE_ISA_SEGMENT_STANDARD, SAMPLE_ISA_SEGMENT_ALT, TOO_SHORT_ISA}

----------------------------------------------------------------------------
(* The caller *)

Init ==
    /\ isa_segment = <<>>
    /\ args = <<>>
    /\ args2 = <<>>
    /\ d = NoValue
    /\ other = NoValue
    /\ origin = "none"
    /\ call = "none"
    /\ ret = NoValue

\* let d = Delimiters::new(t, e, s)
CallNew ==
    /\ call = "none"
    /\ \E t \in Bytes, e \in Bytes, s \in Bytes :
        /\ args' = <<t, e, s>>
        /\ d' = New(t, e, s)
        /\ ret' = New(t, e, s)
    /\ origin' = "new"
    /\ call' = "new"
    /\ UNCHANGED <<isa_segment, args2, other>>

\* let d = Delimiters::default()
CallDefault ==
    /\ call = "none"
    /\ d' = Default
    /\ ret' = Default
    /\ origin' = "default"
    /\ call' = "default"
    /\ UNCHANGED <<isa_segment, args, args2, other>>

\* let result = Delimiters::from_isa(h); d is result.unwrap() when it is Ok
CallFromIsa ==
    /\ call = "none"
    /\ \E h \in Headers :
        /\ isa_segment' = h
        /\ ret' = from_isa(h)
        /\ d' = IF from_isa(h).tag = "Ok" THEN from_isa(h).val ELSE NoValue
    /\ origin' = "from_isa"
    /\ call' = "from_isa"
    /\ UNCHANGED <<args, args2, other>>

\* d.segment_terminator()
CallSegmentTerminator ==
    /\ call \in {"new", "default", "from_isa"}
    /\ d # NoValue
    /\ ret' = segment_terminator(d)
    /\ call' = "segment_terminator"
    /\ UNCHANGED <<isa_segment, args, args2, d, other, origin>>

\* d.element_separator()
CallElementSeparator ==
    /\ call \in {"new", "default", "from_isa"}
    /\ d # NoValue
    /\ ret' = element_separator(d)
    /\ call' = "element_separator"
    /\ UNCHANGED <<isa_segment, args, args2, d, other, origin>>

\* d.sub_element_separator()
CallSubElementSeparator ==
    /\ call \in {"new", "default", "from_isa"}
    /\ d # NoValue
    /\ ret' = sub_element_separator(d)
    /\ call' = "sub_element_separator"
    /\ UNCHANGED <<isa_segment, args, args2, d, other, origin>>

\* d.are_valid()
CallAreValid ==
    /\ call \in {"new", "default", "from_isa"}
    /\ d # NoValue
    /\ ret' = are_valid(d)
    /\ call' = "are_valid"
    /\ UNCHANGED <<isa_segment, args, args2, d, other, origin>>

\* let other = Delimiters::new(d.segment_terminator(), d.element_separator(),
\* d.sub_element_separator()); d == other
CallRoundtrip ==
    /\ call = "new"
    /\ other' = New(segment_terminator(d), element_separator(d),
                    sub_element_separator(d))
    /\ ret' = Eq(d, other')
    /\ call' = "roundtrip"
    /\ UNCHANGED <<isa_segment, args, args2, d, origin>>

\* let other = Delimiters::new(t, e, s); d == other
CallEq ==
    /\ call = "new"
    /\ \E t \in Bytes, e \in Bytes, s \in Bytes :
        /\ args2' = <<t, e, s>>
        /\ other' = New(t, e, s)
        /\ ret' = Eq(d, New(t, e, s))
    /\ call' = "eq"
    /\ UNCHANGED <<isa_segment, args, d, origin>>

\* result.err().unwrap().to_string()
CallDisplay ==
    /\ call = "from_isa"
    /\ ret.tag = "Err"
    /\ ret' = fmt(ret.err)
    /\ call' = "display"
    /\ UNCHANGED <<isa_segment, args, args2, d, other, origin>>

Next ==
    \/ CallNew
    \/ CallDefault
    \/ CallFromIsa
    \/ CallSegmentTerminator
    \/ CallElementSeparator
    \/ CallSubElementSeparator
    \/ CallAreValid
    \/ CallRoundtrip
    \/ CallEq
    \/ CallDisplay

Spec == Init /\ [][Next]_vars

----------------------------------------------------------------------------
(* The claims *)

\* C1: from_isa returns Err(InvalidIsaLength) if and only if the slice is
\* shorter than 106 bytes: every length 0..105 fails with that one error kind
\* and yields no delimiter set, every length of 106 or more succeeds.
C1_ErrIffShorterThan106 ==
    call = "from_isa" =>
        /\ (ret = Err("InvalidIsaLength")) <=> (Len(isa_segment) < 106)
        /\ Len(isa_segment) < 106 =>
            /\ DOMAIN ret = {"tag", "err"}
            /\ d = NoValue
        /\ Len(isa_segment) >= 106 =>
            /\ ret.tag = "Ok"
            /\ d = ret.val

C1_Witness ==
    /\ call = "from_isa"
    /\ Len(isa_segment) = 105
    /\ ret.tag = "Err"

\* C2: on a slice of 106 bytes or more, from_isa succeeds with the element
\* separator from offset 3, the sub-element separator from offset 104 and the
\* segment terminator from offset 105; every other slice of 106 bytes or more
\* with the same three bytes at these offsets gives the same result, whatever
\* its first three bytes, its other bytes and its length.
C2_ExtractsFixedOffsets ==
    (call = "from_isa" /\ Len(isa_segment) >= 106) =>
        /\ ret.tag = "Ok"
        /\ ret.val.element_separator = isa_segment[3 + 1]
        /\ ret.val.sub_element_separator = isa_segment[104 + 1]
        /\ ret.val.segment_terminator = isa_segment[105 + 1]
        /\ \A len \in {n \in Lengths : n >= 106}, tagged \in BOOLEAN,
              fill \in Bytes :
            from_isa(HeaderOf(len, tagged, fill, isa_segment[3 + 1],
                              isa_segment[104 + 1], isa_segment[105 + 1])) = ret

C2_Witness ==
    /\ call = "from_isa"
    /\ Len(isa_segment) > 106
    /\ isa_segment[1] # 73
    /\ ret.tag = "Ok"
    /\ ret.val.element_separator = 0
    /\ ret.val.sub_element_separator = 58
    /\ ret.val.segment_terminator = 42

\* C3: are_valid() on Delimiters::new(t, e, s) is true if and only if t, e and
\* s are pairwise distinct; with any two of them equal it is false.
C3_ValidIffPairwiseDistinct ==
    (origin = "new" /\ call = "are_valid") =>
        /\ ret = (Cardinality({args[1], args[2], args[3]}) = 3)
        /\ (args[1] = args[2] \/ args[1] = args[3] \/ args[2] = args[3])
            => ret = FALSE

C3_Witness ==
    /\ origin = "new"
    /\ call = "are_valid"
    /\ args[1] = args[2]
    /\ args[1] # args[3]
    /\ ret = FALSE

\* C4: Delimiters::default() is the set with segment terminator '~' (126),
\* element separator '*' (42) and sub-element separator ':' (58), and
\* are_valid() on it is true.
C4_DefaultIsStandardAndValid ==
    origin = "default" =>
        /\ d = [segment_terminator |-> 126, element_separator |-> 42,
                sub_element_separator |-> 58]
        /\ call = "default" => ret = d
        /\ call = "are_valid" => ret = TRUE

C4_Witness ==
    /\ origin = "default"
    /\ call = "are_valid"
    /\ ret = TRUE

\* C5: Delimiters::new(t, e, s) never fails, whatever the three bytes
\* (duplicates included), and the accessors of the result return t, e and s
\* in that order.
C5_NewStoresInArgumentOrder ==
    /\ call = "new" =>
        /\ d # NoValue
        /\ d = ret
        /\ segment_terminator(d) = args[1]
        /\ element_separator(d) = args[2]
        /\ sub_element_separator(d) = args[3]
    /\ (origin = "new" /\ call = "segment_terminator") => ret = args[1]
    /\ (origin = "new" /\ call = "element_separator") => ret = args[2]
    /\ (origin = "new" /\ call = "sub_element_separator") => ret = args[3]

C5_Witness ==
    /\ origin = "new"
    /\ call = "sub_element_separator"
    /\ args[1] = args[2]
    /\ args[2] # args[3]
    /\ ret = args[3]

\* C6: round trip: the set rebuilt with new from the three accessors of
\* d = Delimiters::new(a, b, c) is equal to d.
C6_RoundTrip ==
    call = "roundtrip" =>
        /\ ret = TRUE
        /\ other = d
        /\ other = [segment_terminator |-> args[1],
                    element_separator |-> args[2],
                    sub_element_separator |-> args[3]]

C6_Witness ==
    /\ call = "roundtrip"
    /\ args[1] # args[2]
    /\ args[2] # args[3]
    /\ args[1] # args[3]
    /\ ret = TRUE

\* C7: equality is structural: new(s1, e1, u1) == new(s2, e2, u2) if and only
\* if s1 = s2, e1 = e2 and u1 = u2.
C7_EqualityIsStructural ==
    call = "eq" =>
        ret = (args[1] = args2[1] /\ args[2] = args2[2] /\ args[3] = args2[3])

C7_Witness ==
    /\ call = "eq"
    /\ args[1] = args2[1]
    /\ args[2] = args2[2]
    /\ args[3] # args2[3]
    /\ ret = FALSE

\* C8, as amended: the sample standard header is 106 bytes long, and from_isa
\* on it succeeds with element separator '*' (42), sub-element separator ':'
\* (58) and segment terminator '~' (126).
C8_SampleHeaderIs106Bytes ==
    (call = "from_isa" /\ isa_segment = SAMPLE_ISA_SEGMENT_STANDARD) =>
        /\ Len(isa_segment) = 106
        /\ ret = Ok([element_separator |-> 42, sub_element_separator |-> 58,
                     segment_terminator |-> 126])

C8_Witness ==
    /\ call = "from_isa"
    /\ isa_segment = SAMPLE_ISA_SEGMENT_STANDARD
    /\ ret.tag = "Ok"

\* C8, as stated: the sample standard header is 118 bytes long, and from_isa on
\* it succeeds with '*', ':' and '~'.
C8_Original ==
    (call = "from_isa" /\ isa_segment = SAMPLE_ISA_SEGMENT_STANDARD) =>
        /\ Len(isa_segment) = 118
        /\ ret = Ok([element_separator |-> 42, sub_element_separator |-> 58,
                     segment_terminator |-> 126])

\* C9, as amended: the error from_isa returns on a too-short slice is the only
\* variant of DelimiterError, and it displays as "ISA segment must be at least
\* 106 bytes long to extract delimiters".
C9_ErrorKindAndMessage ==
    /\ (call = "from_isa" /\ ret.tag = "Err") =>
        /\ ret.err = "InvalidIsaLength"
        /\ DelimiterError = {ret.err}
    /\ call = "display" =>
        /\ Len(isa_segment) < 106
        /\ ret = "ISA segment must be at least 106 bytes long to extract delimiters"

C9_Witness ==
    /\ call = "display"
    /\ Len(isa_segment) = 105
    /\ ret = "ISA segment must be at least 106 bytes long to extract delimiters"

\* C9, as stated: the error from_isa returns on a too-short slice displays as
\* "header must be at least 106 bytes to extract delimiters".
C9_Original ==
    call = "display" =>
        ret = "header must be at least 106 bytes to extract delimiters"

\* C10: from_isa does not validate the bytes it extracts: on 106 bytes or more
\* it succeeds also when two of the bytes at offsets 3, 104 and 105 are equal,
\* and are_valid() on the extracted set is true exactly when the three bytes
\* are pairwise distinct.
C10_ExtractionDefersValidation ==
    /\ (call = "from_isa" /\ Len(isa_segment) >= 106) => ret.tag = "Ok"
    /\ (origin = "from_isa" /\ call = "are_valid") =>
        /\ Len(isa_segment) >= 106
        /\ ret = (Cardinality({isa_segment[3 + 1], isa_segment[104 + 1],
                               isa_segment[105 + 1]}) = 3)

C10_Witness ==
    /\ origin = "from_isa"
    /\ call = "are_valid"
    /\ isa_segment[3 + 1] = isa_segment[104 + 1]
    /\ isa_segment[3 + 1] # isa_segment[105 + 1]
    /\ ret = FALSE

====
